---- MODULE Spec2Model ----
(***************************************************************************)
(* A model of the Mongoose adapter of json-api: the query dispatcher       *)
(* doQuery and the six operations it dispatches to, acting on a store of   *)
(* documents (src/src/db-adapters/Mongoose/MongooseAdapter.ts).            *)
(*                                                                         *)
(* Strings the code inspects character by character (ids, include paths)   *)
(* are sequences of one-character strings.  The store is the sequence of   *)
(* documents in natural (insertion) order.  The store itself is taken to   *)
(* answer every call (no driver failure).                                  *)
(***************************************************************************)
EXTENDS Integers, Sequences, FiniteSets, TLC

VARIABLES
    store,      \* the documents held by the database, in natural order
    removing,   \* _ids of documents whose remove() was called and has not completed
    query,      \* the query handed to the last doQuery
    method,     \* the operation doQuery selected for it
    calls,      \* the store calls the operation made, in order
    outcome,    \* how the call ended: thrown, rejected or fulfilled
    inflight,   \* relationship updates sent to the store that it has not executed
    applied,    \* the relationship updates the store executed, in its order
    base,       \* the store before the first of them was sent
    args,       \* the arguments pseudoTopSort was called with
    roots,      \* pseudoTopSort: its copy of roots
    edges,      \* pseudoTopSort: its copy of edges
    sortResult, \* pseudoTopSort: the sorted elements so far
    returned    \* pseudoTopSort has returned sortResult

vars == <<store, removing, query, method, calls, outcome, inflight, applied, base,
          args, roots, edges, sortResult, returned>>

\* The part of the state that follows relationship updates sent side by side.
concurrent == <<inflight, applied, base>>

\* The part of the state that belongs to a call of pseudoTopSort.
sorting == <<args, roots, edges, sortResult, returned>>

\* No call of pseudoTopSort.
NoArgs == [def |-> FALSE, nodes |-> <<>>, edges |-> <<>>, roots |-> <<>>]

NotSorting ==
    /\ args = NoArgs
    /\ roots = <<>>
    /\ edges = <<>>
    /\ sortResult = <<>>
    /\ returned = FALSE

----------------------------------------------------------------------------
(* Bounds of the model. *)

MaxDocs == 3        \* documents in the store
MaxIds == 2         \* length of an id array in a query
MaxPage == 1        \* largest offset and limit
MaxIncludes == 2    \* length of a list of include paths
MaxRecords == 3     \* resources in the input of a Create or an Update
MaxOps == 2         \* relationship updates sent side by side
MaxFields == 2      \* names in a field selection
MaxNodes == 3       \* nodes of a graph given to pseudoTopSort
MaxEdges == 2       \* edges of a graph given to pseudoTopSort

----------------------------------------------------------------------------
(* Strings as sequences of characters. *)

Rep(c, n) == [i \in 1..n |-> c]

HexChars == {"0", "1", "2", "3", "4", "5", "6", "7", "8", "9",
             "a", "b", "c", "d", "e", "f", "A", "B", "C", "D", "E", "F"}

IdLen == 24

\* idIsValid that tests the length alone.
idIsValid_LengthOnly(id) == Len(id) = IdLen

\* typeof id === "string" && /^[0-9a-fA-F]{24}$/.test(id)
idIsValid(id) == Len(id) = IdLen /\ \A i \in 1..Len(id) : id[i] \in HexChars

\* The ids the store hands out, in the order it hands them out.
IdChars == <<"a", "B", "0", "f", "1", "C", "2", "e">>
StoreIds == [i \in 1..Len(IdChars) |-> Rep(IdChars[i], IdLen)]

\* Ids that are no primary key: too short, and a character that is no hex digit.
ShortId == Rep("a", IdLen - 1)
NonHexId == Rep("g", IdLen)

NoId == <<>>

RECURSIVE Split(_, _)
\* String.prototype.split(sep): the pieces between the separators.
Split(s, sep) ==
    IF \A i \in 1..Len(s) : s[i] # sep THEN <<s>>
    ELSE LET k == CHOOSE i \in 1..Len(s) : s[i] = sep /\ \A j \in 1..(i - 1) : s[j] # sep
         IN <<SubSeq(s, 1, k - 1)>> \o Split(SubSeq(s, k + 1, Len(s)), sep)

SeqsUpTo(S, n) == UNION {[1..k -> S] : k \in 0..n}

Range(s) == {s[i] : i \in 1..Len(s)}

RECURSIVE SelectIdx(_, _, _)
\* The elements of s that satisfy Test, in order (Array.prototype.filter).
SelectIdx(s, Test(_), i) ==
    IF i > Len(s) THEN <<>>
    ELSE (IF Test(s[i]) THEN <<s[i]>> ELSE <<>>) \o SelectIdx(s, Test, i + 1)

Filter(s, Test(_)) == SelectIdx(s, Test, 1)

----------------------------------------------------------------------------
(* Errors. *)

\* new APIError(status, code, title, detail)
APIErrorWith(status, title, detail) ==
    [name |-> "APIError", status |-> status, title |-> title, detail |-> detail]

APIError(status, title) == APIErrorWith(status, title, "")

\* The plain Error of getModel, which carries a status of its own.
ModelError ==
    [name |-> "Error", status |-> 404, title |-> "model not registered", detail |-> ""]

\* The plain Error of doQuery.
QueryTypeError ==
    [name |-> "Error", status |-> 0, title |-> "Unexpected query type.", detail |-> ""]

\* null passed to docToResource: reading doc.constructor of null.
TypeError ==
    [name |-> "TypeError", status |-> 0, title |-> "Cannot read property of null", detail |-> ""]

NoError == [name |-> "none", status |-> 0, title |-> "", detail |-> ""]

----------------------------------------------------------------------------
(* Types, models and their schemas. *)

Names == {"x", "y"}

\* The types a query may name; "ghosts" has no registered model.
Types == {"people", "organizations", "ghosts"}

\* getModelName: the last word singularized, every word capitalized.
getModelName(type) ==
    CASE type = "people" -> "Person"
      [] type = "organizations" -> "Organization"
      [] OTHER -> "Ghost"

\* getType: hyphens before inner capitals, lower case, pluralized.
getType(modelName) ==
    CASE modelName = "Person" -> "people"
      [] modelName = "Organization" -> "organizations"
      [] OTHER -> "ghosts"

\* this.models, read-only after construction.
models == {"Person", "Organization"}

\* getModel: the registered model, or a plain Error with status 404.
getModel(modelName) ==
    IF modelName \in models
    THEN [ok |-> TRUE, model |-> modelName, error |-> NoError]
    ELSE [ok |-> FALSE, model |-> modelName, error |-> ModelError]

\* Field names are strings of one word; "." joins the segments of a path.
F_name == <<"name">>
F_manages == <<"manages">>
F_liaisons == <<"liaisons">>
Dot == "."

\* util.getReferencePaths(model): the paths of the schema that hold references.
getReferencePaths(model) ==
    CASE model = "Person" -> <<F_manages>>
      [] model = "Organization" -> <<F_liaisons>>
      [] OTHER -> <<>>

\* util.getReferencedModelName(model, path)
getReferencedModelName(model, path) ==
    IF model = "Person" THEN "Organization" ELSE "Person"

getReferencedType(model, path) == getType(getReferencedModelName(model, path))

arrayContains(arr, value) == \E i \in 1..Len(arr) : arr[i] = value

\* A stored document.  A Person has no liaisons and an Organization no
\* manages; the unused field stays empty.
Doc(id, model, name, manages, liaisons) ==
    [_id |-> id, model |-> model, name |-> name, manages |-> manages, liaisons |-> liaisons,
     nulls |-> {}]

\* An organization whose liaisons are stored as null.
DocWithNull(id, name) ==
    [Doc(id, "Organization", name, NoId, <<>>) EXCEPT !.nulls = {F_liaisons}]

\* The schema declares the path as an array of references.
isToMany(model, path) == model = "Organization" /\ path = F_liaisons

----------------------------------------------------------------------------
(* Resources, and documents mapped to them. *)

NullLink == [type |-> "", id |-> NoId]

Link(type, id) == [type |-> type, id |-> id]

\* new Linkage(value): a single link or null (to-one), or a list (to-many).
Linkage(isList, links) == [isList |-> isList, links |-> links]

Resource(type, id, attrs, relationships) ==
    [type |-> type, id |-> id, attrs |-> attrs, relationships |-> relationships]

\* No field selection.
NoFields == [def |-> FALSE, type |-> "", names |-> <<>>]

\* JSON values: a string, an id, a list of ids.
VStr(s) == [t |-> "string", s |-> s, ids |-> <<>>]
VId(id) == [t |-> "id", s |-> "", ids |-> <<id>>]
VArr(ids) == [t |-> "array", s |-> "", ids |-> ids]
VUndef == [t |-> "undefined", s |-> "", ids |-> <<>>]

\* The keys of a document that are not its data: the id virtual, _id, the
\* version key and the discriminator key.
K_id == <<"id">>
K__id == <<"_id">>
versionKey == <<"__v">>
discriminatorKey == <<"__t">>

\* The paths of the schema as doc.toJSON() gives them.  An unset to-one path
\* and a to-many path stored as null are absent.
pathsJSON(doc) ==
    IF doc.model = "Person"
    THEN IF doc.manages = NoId
         THEN (F_name :> VStr(doc.name))
         ELSE (F_name :> VStr(doc.name)) @@ (F_manages :> VId(doc.manages))
    ELSE IF F_liaisons \in doc.nulls
    THEN (F_name :> VStr(doc.name))
    ELSE (F_name :> VStr(doc.name)) @@ (F_liaisons :> VArr(doc.liaisons))

\* doc.toJSON({virtuals: true, getters: true}): the paths, the id virtual,
\* _id and the version key (a document of these models has no
\* discriminator key).
toJSON(doc) ==
    pathsJSON(doc) @@ (K_id :> VId(doc._id)) @@ (K__id :> VId(doc._id))
    @@ (versionKey :> VStr("0"))

\* cleanAttrs that deletes no key.
cleanAttrs_NoDeletes(doc) == toJSON(doc)

\* delete attrs.id, attrs._id, attrs[versionKey], attrs[discriminatorKey]
cleanAttrs(doc) ==
    [k \in (DOMAIN toJSON(doc)) \ {K_id, K__id, versionKey, discriminatorKey} |->
       toJSON(doc)[k]]

\* JavaScript truthiness of a JSON value.
Truthy(v) ==
    CASE v.t = "string" -> v.s # ""
      [] v.t = "id" -> TRUE
      [] v.t = "array" -> TRUE
      [] OTHER -> FALSE

\* obj[key] on a plain object.
Get(obj, key) == IF key \in DOMAIN obj THEN obj[key] ELSE VUndef

\* The attributes kept by a field selection: fields[type].forEach(...)
selectAttrs(attrs, names) ==
    [k \in {f \in Range(names) : Truthy(Get(attrs, f))} |-> attrs[k]]

\* The linkage built from the value at one reference path.
linkageOf(val, referencedType) ==
    IF val.t = "array"
    THEN Linkage(TRUE, [i \in 1..Len(val.ids) |-> Link(referencedType, val.ids[i])])
    ELSE Linkage(FALSE, <<IF val.t = "id" THEN Link(referencedType, val.ids[1]) ELSE NullLink>>)

\* fields && fields[type]
selecting(fields, type) == fields.def /\ fields.type = type

\* The reference paths the field selection does not skip.
keptPaths(refPaths, fields, type) ==
    {p \in Range(refPaths) : ~selecting(fields, type) \/ arrayContains(fields.names, p)}

\* refPaths.forEach(...): every kept path moves from attributes to relationships.
buildResource(doc, type, attrs, kept) ==
    Resource(type, doc._id,
             [k \in (DOMAIN attrs) \ kept |-> attrs[k]],
             [p \in kept |-> linkageOf(Get(attrs, p), getReferencedType(doc.model, p))])

docToResource(doc, fields) ==
    buildResource(doc, getType(doc.model),
                  IF selecting(fields, getType(doc.model))
                  THEN selectAttrs(cleanAttrs(doc), fields.names) ELSE cleanAttrs(doc),
                  keptPaths(getReferencePaths(doc.model), fields, getType(doc.model)))

\* What an operation's promise fulfils with: a Collection or one Resource.
Collection(resources) == [shape |-> "Collection", resources |-> resources]
Single(resource) == [shape |-> "Resource", resources |-> <<resource>>]

\* docs.map(docToResource), then a Collection or the first resource.
mapDocs(docs, makeCollection, fields) ==
    IF makeCollection
    THEN Collection([i \in 1..Len(docs) |-> docToResource(docs[i], fields)])
    ELSE Single(docToResource(docs[1], fields))

\* docsToResourceOrCollection that fails on every empty answer.
docsToResourceOrCollection_EmptyFails(docs, isArray, makeCollection, fields) ==
    IF Len(docs) = 0
    THEN [ok |-> FALSE, error |-> APIError(404, "No matching resource found."),
          value |-> Collection(<<>>)]
    ELSE [ok |-> TRUE, error |-> NoError, value |-> mapDocs(docs, makeCollection, fields)]

\* docs: the documents of a store answer; isArray: whether the answer is an
\* array (an absent single document is the empty non-array).
docsToResourceOrCollection(docs, isArray, makeCollection, fields) ==
    IF (~isArray /\ Len(docs) = 0) \/ (~makeCollection /\ isArray /\ Len(docs) = 0)
    THEN [ok |-> FALSE, error |-> APIError(404, "No matching resource found."),
          value |-> Collection(<<>>)]
    ELSE [ok |-> TRUE, error |-> NoError, value |-> mapDocs(docs, makeCollection, fields)]

----------------------------------------------------------------------------
(* The id filter of a query and the id-query mode. *)

\* query.getIdOrIds(): undefined, a string, or an array of strings.
IdUndefined == [tag |-> "undefined", str |-> <<>>, arr |-> <<>>]
IdString(s) == [tag |-> "string", str |-> s, arr |-> <<>>]
IdArray(a) == [tag |-> "array", str |-> <<>>, arr |-> a]

\* !idOrIds: undefined and the empty string are falsy, every array is truthy.
Falsy(idOrIds) ==
    idOrIds.tag = "undefined" \/ (idOrIds.tag = "string" /\ idOrIds.str = <<>>)

\* The criteria of an id query: {_id: id}, {_id: {$in: ids}} or {}.
IdEq(id) == [op |-> "eq", ids |-> <<id>>]
IdIn(ids) == [op |-> "in", ids |-> ids]
IdAll == [op |-> "all", ids |-> <<>>]

\* idQueryOf that takes an empty array for no filter.
idQueryOf_EmptyIsAll(idOrIds) ==
    IF idOrIds.tag = "array" /\ idOrIds.arr # <<>>
    THEN [mode |-> "find", idQuery |-> IdIn(idOrIds.arr),
          hasIds |-> TRUE, idsArray |-> idOrIds.arr]
    ELSE IF idOrIds.tag = "string" /\ idOrIds.str # <<>>
    THEN [mode |-> "findOne", idQuery |-> IdEq(idOrIds.str),
          hasIds |-> TRUE, idsArray |-> <<idOrIds.str>>]
    ELSE [mode |-> "find", idQuery |-> IdAll, hasIds |-> FALSE, idsArray |-> <<>>]

\* The mode, the criteria and the ids to validate (none without an id filter).
idQueryOf(idOrIds) ==
    IF idOrIds.tag = "array"
    THEN [mode |-> "find", idQuery |-> IdIn(idOrIds.arr),
          hasIds |-> TRUE, idsArray |-> idOrIds.arr]
    ELSE IF idOrIds.tag = "string" /\ idOrIds.str # <<>>
    THEN [mode |-> "findOne", idQuery |-> IdEq(idOrIds.str),
          hasIds |-> TRUE, idsArray |-> <<idOrIds.str>>]
    ELSE [mode |-> "find", idQuery |-> IdAll, hasIds |-> FALSE, idsArray |-> <<>>]

\* idsArray && !idsArray.every(this.idIsValid)
validateIds(idOrIds, r) ==
    IF r.hasIds /\ ~(\A i \in 1..Len(r.idsArray) : idIsValid(r.idsArray[i]))
    THEN [ok |-> FALSE, mode |-> r.mode, idQuery |-> r.idQuery,
          error |-> IF idOrIds.tag = "array"
                    THEN APIError(400, "Invalid ID.")
                    ELSE APIErrorWith(404, "No matching resource found.", "Invalid ID.")]
    ELSE [ok |-> TRUE, mode |-> r.mode, idQuery |-> r.idQuery, error |-> NoError]

getIdQueryType(idOrIds) == validateIds(idOrIds, idQueryOf(idOrIds))

----------------------------------------------------------------------------
(* The store: what its calls answer in a given state. *)

\* An optional number (offset, limit).
NoNum == [def |-> FALSE, n |-> 0]
Num(n) == [def |-> TRUE, n |-> n]

\* if(offset), if(limit): set and not 0.
TruthyNum(x) == x.def /\ x.n # 0

\* util.toMongoCriteria(filters): every filter is an equality on one field.
toMongoCriteria(filters) == filters

FieldOf(doc, field) == IF field = F_name THEN doc.name ELSE ""

MatchesCriteria(doc, criteria) ==
    \A i \in 1..Len(criteria) : FieldOf(doc, criteria[i].field) = criteria[i].value

MatchesId(doc, idQuery) ==
    CASE idQuery.op = "eq" -> doc._id = idQuery.ids[1]
      [] idQuery.op = "in" -> doc._id \in Range(idQuery.ids)
      [] OTHER -> TRUE

\* The documents of a model's collection, in natural order.
DocsOf(docs, model) == LET OfModel(d) == d.model = model IN Filter(docs, OfModel)

Drop(s, n) == IF n >= Len(s) THEN <<>> ELSE SubSeq(s, n + 1, Len(s))
Take(s, n) == IF n >= Len(s) THEN s ELSE SubSeq(s, 1, n)

\* A call of the store: the query a builder holds when exec() is called, or
\* the arguments of a direct call.
StoreCall(op, model, idQuery) ==
    [op |-> op, model |-> model, idQuery |-> idQuery, where |-> <<>>,
     sort |-> <<>>, skip |-> 0, limit |-> 0, populate |-> <<>>]

QueryBuilder(mode, model, idQuery) == StoreCall(mode, model, idQuery)

\* model.count(criteria).exec()
CountCall(model, criteria) == [StoreCall("count", model, IdAll) EXCEPT !.where = criteria]

count(docs, model, criteria) ==
    LET Hit(d) == MatchesCriteria(d, criteria) IN Len(Filter(DocsOf(docs, model), Hit))

\* Population of one document: a reference whose document is gone is dropped
\* from a to-many path and is null on a to-one path.
Populate(docs, doc, paths) ==
    LET Has(id) == \E i \in 1..Len(docs) : docs[i]._id = id
    IN [doc EXCEPT
          !.manages = IF arrayContains(paths, F_manages) /\ ~Has(doc.manages)
                      THEN NoId ELSE doc.manages,
          !.liaisons = IF arrayContains(paths, F_liaisons)
                       THEN Filter(doc.liaisons, Has) ELSE doc.liaisons]

RECURSIVE DocsById(_, _, _)
\* The stored documents of the given ids, in the order of the ids.
DocsById(docs, ids, i) ==
    IF i > Len(ids) THEN <<>>
    ELSE LET Is(d) == d._id = ids[i] IN Filter(docs, Is) \o DocsById(docs, ids, i + 1)

\* doc[path] of a populated document, as an array.
RefIds(doc, path) ==
    IF path = F_manages /\ doc.model = "Person" THEN <<doc.manages>>
    ELSE IF path = F_liaisons /\ doc.model = "Organization" THEN doc.liaisons
    ELSE <<>>

RECURSIVE RefDocs(_, _, _, _)
\* The documents a populated document refers to on the populated paths, in
\* path order.
RefDocs(docs, doc, paths, i) ==
    IF i > Len(paths) THEN <<>>
    ELSE DocsById(docs, RefIds(doc, paths[i]), 1) \o RefDocs(docs, doc, paths, i + 1)

\* queryBuilder.sort(...): a sort on the name, ascending or ("-name")
\* descending; documents of one name keep their natural order.
SortDocs(docs, sort) ==
    LET X(d) == d.name = "x"
        Y(d) == d.name = "y"
    IN IF sort = <<>> \/ sort[1].field # F_name THEN docs
       ELSE IF sort[1].direction = "DESC" THEN Filter(docs, Y) \o Filter(docs, X)
       ELSE Filter(docs, X) \o Filter(docs, Y)

\* The documents of the model that the id criteria and the where() match.
Matching(docs, qb) ==
    LET Hit(d) == MatchesId(d, qb.idQuery) /\ MatchesCriteria(d, qb.where)
    IN Filter(DocsOf(docs, qb.model), Hit)

\* findOne answers the first document, find the documents up to the limit.
PageOf(qb, hits) ==
    IF qb.op = "findOne" THEN Take(hits, 1)
    ELSE IF qb.limit # 0 THEN Take(hits, qb.limit) ELSE hits

Answer(docs, qb, page) ==
    [isArray |-> qb.op = "find",
     docs |-> [i \in 1..Len(page) |-> Populate(docs, page[i], qb.populate)]]

\* queryBuilder.exec(): the matching documents, sorted, after skip and limit;
\* findOne answers one document or null (isArray FALSE, no document).
exec(docs, qb) ==
    Answer(docs, qb, PageOf(qb, Drop(SortDocs(Matching(docs, qb), qb.sort), qb.skip)))

----------------------------------------------------------------------------
(* How a call of doQuery ends. *)

NoValue == [primary |-> [shape |-> "none", resources |-> <<>>],
            included |-> [def |-> FALSE, resources |-> <<>>],
            size |-> NoNum]

Idle == [state |-> "idle", error |-> NoError, normalized |-> FALSE, value |-> NoValue]

\* An exception thrown out of the call, before any promise is returned.
Thrown(err) == [state |-> "thrown", error |-> err, normalized |-> FALSE, value |-> NoValue]

\* The returned promise rejects.
Rejected(err, normalized) ==
    [state |-> "rejected", error |-> err, normalized |-> normalized, value |-> NoValue]

\* The returned promise fulfils.
Fulfilled(value) == [state |-> "fulfilled", error |-> NoError, normalized |-> FALSE, value |-> value]

\* .catch(util.errorHandler): an APIError is handed on with its status.
errorHandler(err) == Rejected(err, TRUE)

\* The end of an operation: its outcome, the store calls it made, and the
\* store and the pending removals after it.
Done(out, cs, docs, rm) == [outcome |-> out, calls |-> cs, store |-> docs, removing |-> rm]

----------------------------------------------------------------------------
(* find *)

NoPaths == [def |-> FALSE, paths |-> <<>>]
Paths(ps) == [def |-> TRUE, paths |-> ps]

RECURSIVE checkIncludes_NoNestedCheck(_, _, _, _)
\* checkIncludes that hands a nested path under a declared one to populate().
checkIncludes_NoNestedCheck(includePaths, refPaths, i, populatedPaths) ==
    IF i > Len(includePaths)
    THEN [ok |-> TRUE, error |-> NoError, populatedPaths |-> populatedPaths]
    ELSE IF ~arrayContains(refPaths, Split(includePaths[i], Dot)[1])
    THEN [ok |-> FALSE, error |-> APIError(400, "Invalid include path."),
          populatedPaths |-> populatedPaths]
    ELSE checkIncludes_NoNestedCheck(includePaths, refPaths, i + 1,
                                     Append(populatedPaths, Split(includePaths[i], Dot)[1]))

RECURSIVE checkIncludes(_, _, _, _)
\* includePaths.map(split).forEach(...): the first path that is not declared
\* or is nested throws; the paths before it were handed to populate().
checkIncludes(includePaths, refPaths, i, populatedPaths) ==
    IF i > Len(includePaths)
    THEN [ok |-> TRUE, error |-> NoError, populatedPaths |-> populatedPaths]
    ELSE IF ~arrayContains(refPaths, Split(includePaths[i], Dot)[1])
    THEN [ok |-> FALSE, error |-> APIError(400, "Invalid include path."),
          populatedPaths |-> populatedPaths]
    ELSE IF Len(Split(includePaths[i], Dot)) > 1
    THEN [ok |-> FALSE,
          error |-> APIError(501, "Multi-level include paths aren't yet supported."),
          populatedPaths |-> populatedPaths]
    ELSE checkIncludes(includePaths, refPaths, i + 1,
                       Append(populatedPaths, Split(includePaths[i], Dot)[1]))

RECURSIVE Included(_, _, _, _, _)
\* The resources of the documents the primary documents refer to on the
\* populated paths, duplicates kept.
Included(docs, found, paths, fields, i) ==
    IF i > Len(found) THEN <<>>
    ELSE LET refs == RefDocs(docs, found[i], paths, 1)
         IN [k \in 1..Len(refs) |-> docToResource(refs[k], fields)]
            \o Included(docs, found, paths, fields, i + 1)

\* typeof idOrIds !== 'string' && (offset or limit is not undefined)
isPaginating(q) == q.idOrIds.tag # "string" /\ (q.offset.def \/ q.limit.def)

\* model.count(mongofiedFilters)
countCriteria(q) == toMongoCriteria(q.filters)

\* !idOrIds || Array.isArray(idOrIds)
makeCollectionOf(idOrIds) == Falsy(idOrIds) \/ idOrIds.tag = "array"

\* The count query is issued when the builder is made, before the includes
\* are looked at.
countCallsOf(q, model) ==
    IF isPaginating(q) THEN <<CountCall(model, countCriteria(q))>> ELSE <<>>

\* sort(), where(), skip() and limit() on the builder.
builtQuery(q, qb) ==
    [qb EXCEPT !.sort = q.sorts,
               !.where = IF Len(q.filters) > 0 THEN toMongoCriteria(q.filters) ELSE <<>>,
               !.skip = IF TruthyNum(q.offset) THEN q.offset.n ELSE 0,
               !.limit = IF TruthyNum(q.limit) THEN q.limit.n ELSE 0]

\* [primary, included, collection size] of a Find that found its documents.
findValue(docs, q, qb, res, primary) ==
    [primary |-> primary,
     included |-> IF q.populates.def
                  THEN [def |-> TRUE,
                        resources |-> Included(docs, res.docs, qb.populate, q.select, 1)]
                  ELSE [def |-> FALSE, resources |-> <<>>],
     size |-> IF isPaginating(q) THEN Num(count(docs, qb.model, countCriteria(q))) ELSE NoNum]

findEnd(docs, rm, q, qb, cs, res, primary) ==
    IF ~primary.ok THEN Done(errorHandler(primary.error), cs, docs, rm)
    ELSE Done(Fulfilled(findValue(docs, q, qb, res, primary.value)), cs, docs, rm)

findMap(docs, rm, q, qb, cs, res) ==
    findEnd(docs, rm, q, qb, cs, res,
            docsToResourceOrCollection(res.docs, res.isArray,
                                       makeCollectionOf(q.idOrIds), q.select))

findIncludes(docs, rm, q, qb, countCalls, inc) ==
    IF ~inc.ok THEN Done(Thrown(inc.error), countCalls, docs, rm)
    ELSE findMap(docs, rm, q, [qb EXCEPT !.populate = inc.populatedPaths],
                 Append(countCalls, [qb EXCEPT !.populate = inc.populatedPaths]),
                 exec(docs, [qb EXCEPT !.populate = inc.populatedPaths]))

findIds(docs, rm, q, model, t) ==
    IF ~t.ok THEN Done(Thrown(t.error), <<>>, docs, rm)
    ELSE findIncludes(docs, rm, q, builtQuery(q, QueryBuilder(t.mode, model, t.idQuery)),
                      countCallsOf(q, model),
                      checkIncludes(q.populates.paths, getReferencePaths(model), 1, <<>>))

findModel(docs, rm, q, m) ==
    IF ~m.ok THEN Done(Thrown(m.error), <<>>, docs, rm)
    ELSE findIds(docs, rm, q, m.model, getIdQueryType(q.idOrIds))

find(docs, rm, q) == findModel(docs, rm, q, getModel(getModelName(q.using)))

FindQuery(using, idOrIds, filters, sorts, offset, limit, populates) ==
    [kind |-> "Find", using |-> using, idOrIds |-> idOrIds, filters |-> filters,
     sorts |-> sorts, offset |-> offset, limit |-> limit, populates |-> populates,
     select |-> NoFields]

----------------------------------------------------------------------------
(* create *)

\* The input of a Create or an Update: one Resource, or a Collection.
Records(isCollection, resources) == [isCollection |-> isCollection, resources |-> resources]

RECURSIVE TypesInOrder(_, _, _)
\* The keys of the grouping, in the order the types first occur.
TypesInOrder(resources, i, seen) ==
    IF i > Len(resources) THEN seen
    ELSE TypesInOrder(resources, i + 1,
                      IF arrayContains(seen, resources[i].type) THEN seen
                      ELSE Append(seen, resources[i].type))

groupsOf(resources, types) ==
    [g \in 1..Len(types) |->
       LET OfType(r) == r.type = types[g]
       IN [type |-> types[g], resources |-> Filter(resources, OfType)]]

\* groupResourcesByType: the resources of each type, in input order.
groupResourcesByType(records) ==
    groupsOf(records.resources, TypesInOrder(records.resources, 1, <<>>))

\* The value a document object holds for one linkage.
linkageValue(linkage) ==
    IF linkage.isList THEN VArr([i \in 1..Len(linkage.links) |-> linkage.links[i].id])
    ELSE IF linkage.links[1] = NullLink THEN VUndef
    ELSE VId(linkage.links[1].id)

\* util.resourceToDocObject: the attributes, and the ids of every linkage.
resourceToDocObject(resource) ==
    resource.attrs @@
    [p \in DOMAIN resource.relationships |-> linkageValue(resource.relationships[p])]

\* The document a model builds from a document object and an id.
NewDoc(id, model, obj) ==
    Doc(id, model, Get(obj, F_name).s,
        IF model = "Person" /\ Get(obj, F_manages).t = "id"
        THEN Get(obj, F_manages).ids[1] ELSE NoId,
        IF model = "Organization" THEN Get(obj, F_liaisons).ids ELSE <<>>)

\* The ids the store has not given to a document it holds.
FreshIds(docs) ==
    LET Free(id) == \A i \in 1..Len(docs) : docs[i]._id # id
    IN Filter(StoreIds, Free)

newDocs(ids, model, resources) ==
    [i \in 1..Len(resources) |-> NewDoc(ids[i], model, resourceToDocObject(resources[i]))]

\* model.create(resources.map(util.resourceToDocObject)): one document per
\* resource, in order.
storeCreate(docs, model, resources) == newDocs(FreshIds(docs), model, resources)

CreateCall(model, n) == [StoreCall("create", model, IdAll) EXCEPT !.limit = n]

RECURSIVE createGroups(_, _, _, _, _)
RECURSIVE createGroup(_, _, _, _, _, _)

\* The create of one group is issued and its documents come last.
createDocs(groups, g, docs, cs, created, made) ==
    createGroups(groups, g + 1, docs \o made, Append(cs, CreateCall(made[1].model, Len(made))),
                 created \o made)

createGroup(groups, g, docs, cs, created, m) ==
    IF ~m.ok
    THEN [ok |-> FALSE, error |-> m.error, store |-> docs, calls |-> cs, created |-> created]
    ELSE createDocs(groups, g, docs, cs, created,
                    storeCreate(docs, m.model, groups[g].resources))

\* for(const type in resourcesByType): the creates of the groups before a
\* type without a model have been issued when getModel throws.
createGroups(groups, g, docs, cs, created) ==
    IF g > Len(groups)
    THEN [ok |-> TRUE, error |-> NoError, store |-> docs, calls |-> cs, created |-> created]
    ELSE createGroup(groups, g, docs, cs, created, getModel(getModelName(groups[g].type)))

createMap(rm, c, made) ==
    IF ~made.ok THEN Done(errorHandler(made.error), c.calls, c.store, rm)
    ELSE Done(Fulfilled([NoValue EXCEPT !.primary = made.value]), c.calls, c.store, rm)

\* createEnd that answers with a Collection whenever it made other than one document.
createEnd_ByCount(rm, q, c) ==
    IF ~c.ok THEN Done(Thrown(c.error), c.calls, c.store, rm)
    ELSE createMap(rm, c, docsToResourceOrCollection(c.created, TRUE,
                                                     Len(c.created) # 1, NoFields))

\* finalDocs of the groups, in group order, mapped by whether the input was
\* a Collection.
createEnd(rm, q, c) ==
    IF ~c.ok THEN Done(Thrown(c.error), c.calls, c.store, rm)
    ELSE createMap(rm, c, docsToResourceOrCollection(c.created, TRUE,
                                                     q.records.isCollection, NoFields))

create(docs, rm, q) ==
    createEnd(rm, q, createGroups(groupResourcesByType(q.records), 1, docs, <<>>, <<>>))

----------------------------------------------------------------------------
(* update *)

\* parentModel.findByIdAndUpdate(id, finalUpdate, updateOptions)
UpdateCall(model, id, finalUpdate) ==
    StoreCall("findByIdAndUpdate", model, IdEq(id)) @@ [update |-> finalUpdate]

\* The defaults a schema gives a new document: an array path is the empty array.
schemaDefaults(model) ==
    IF model = "Organization" THEN (F_liaisons :> VArr(<<>>)) ELSE <<>>

\* The paths the patch modified on a freshly hydrated document: those the
\* change set names and the schema of the model declares.
modifiedPaths(model, changeSet) ==
    (DOMAIN changeSet) \cap ({F_name} \cup Range(getReferencePaths(model)))

\* updateDoc.toObject(): what the change set set, and the defaults of the
\* document constructor on the other paths.
updateDocObject(model, changeSet) ==
    [k \in modifiedPaths(model, changeSet) |-> changeSet[k]] @@ schemaDefaults(model)

\* finalUpdateOf that sends every path of the update document.
finalUpdateOf_WholeDoc(model, changeSet) == updateDocObject(model, changeSet)

\* The final update: the modified paths with their values in the update document.
finalUpdateOf(model, changeSet) ==
    [k \in modifiedPaths(model, changeSet) |-> updateDocObject(model, changeSet)[k]]

\* $set of the final update on one document.
applyUpdate(doc, finalUpdate) ==
    [doc EXCEPT
       !.name = IF F_name \in DOMAIN finalUpdate THEN finalUpdate[F_name].s ELSE doc.name,
       !.manages = IF doc.model = "Person" /\ F_manages \in DOMAIN finalUpdate
                   THEN (IF finalUpdate[F_manages].t = "id"
                         THEN finalUpdate[F_manages].ids[1] ELSE NoId)
                   ELSE doc.manages,
       !.liaisons = IF doc.model = "Organization" /\ F_liaisons \in DOMAIN finalUpdate
                    THEN finalUpdate[F_liaisons].ids ELSE doc.liaisons]

\* model.findByIdAndUpdate(id, update, {new: true, upsert: false}): the store
\* after it.
findByIdAndUpdate(docs, model, id, finalUpdate) ==
    [i \in 1..Len(docs) |->
       IF docs[i].model = model /\ docs[i]._id = id
       THEN applyUpdate(docs[i], finalUpdate) ELSE docs[i]]

\* What its promise fulfils with: the updated document, or null (none).
updatedDoc(docs, model, id) ==
    LET Hit(d) == d.model = model /\ d._id = id IN Take(Filter(docs, Hit), 1)

RECURSIVE updateEach(_, _, _, _, _, _, _)
RECURSIVE updateOne(_, _, _, _, _, _, _, _)

updateStored(parentModel, resources, i, after, finalUpdate, cs, updated, missing) ==
    updateEach(parentModel, resources, i + 1, after,
               Append(cs, UpdateCall(parentModel, resources[i].id, finalUpdate)),
               updated \o updatedDoc(after, parentModel, resources[i].id),
               missing \/ updatedDoc(after, parentModel, resources[i].id) = <<>>)

updateOne(parentModel, resources, i, docs, cs, updated, missing, m) ==
    IF ~m.ok
    THEN [ok |-> FALSE, error |-> m.error, store |-> docs, calls |-> cs,
          updated |-> updated, missing |-> missing]
    ELSE updateStored(parentModel, resources, i,
                      findByIdAndUpdate(docs, parentModel, resources[i].id,
                                        finalUpdateOf(m.model,
                                                      resourceToDocObject(resources[i]))),
                      finalUpdateOf(m.model, resourceToDocObject(resources[i])),
                      cs, updated, missing)

\* mapResources(patch, ...): the updates of the resources before a type
\* without a model have been issued when getModel throws.
updateEach(parentModel, resources, i, docs, cs, updated, missing) ==
    IF i > Len(resources)
    THEN [ok |-> TRUE, error |-> NoError, store |-> docs, calls |-> cs,
          updated |-> updated, missing |-> missing]
    ELSE updateOne(parentModel, resources, i, docs, cs, updated, missing,
                   getModel(getModelName(resources[i].type)))

updateMap(rm, u, made) ==
    IF ~made.ok THEN Done(errorHandler(made.error), u.calls, u.store, rm)
    ELSE Done(Fulfilled([NoValue EXCEPT !.primary = made.value]), u.calls, u.store, rm)

\* Promise.all(...).then(docs => docsToResourceOrCollection(...)): a null
\* among the documents makes docToResource throw a TypeError.
updateEnd(rm, q, u) ==
    IF ~u.ok THEN Done(Thrown(u.error), u.calls, u.store, rm)
    ELSE IF u.missing THEN Done(errorHandler(TypeError), u.calls, u.store, rm)
    ELSE updateMap(rm, u, docsToResourceOrCollection(u.updated, TRUE,
                                                     q.patch.isCollection, NoFields))

updateModel(docs, rm, q, parent) ==
    IF ~parent.ok THEN Done(Thrown(parent.error), <<>>, docs, rm)
    ELSE updateEnd(rm, q, updateEach(parent.model, q.patch.resources, 1, docs,
                                     <<>>, <<>>, FALSE))

update(docs, rm, q) == updateModel(docs, rm, q, getModel(getModelName(q.using)))

----------------------------------------------------------------------------
(* delete *)

\* What a promise fulfils with when it hands on store documents unmapped.
RawDocs(isArray, docs) ==
    [NoValue EXCEPT !.primary = [shape |-> IF isArray THEN "Docs" ELSE "Doc",
                                 resources |-> docs]]

\* if(!docs): only the null of a findOne that found nothing, never an array.
noDocs(res) == ~res.isArray /\ Len(res.docs) = 0

\* .then(docs => ...): it.remove() is called on every document and is not
\* waited for.
deleteFound(docs, rm, qb, res) ==
    IF noDocs(res)
    THEN Done(errorHandler(APIError(404, "No matching resource found.")), <<qb>>, docs, rm)
    ELSE Done(Fulfilled(RawDocs(res.isArray, res.docs)), <<qb>>, docs,
              rm \cup {res.docs[i]._id : i \in 1..Len(res.docs)})

deleteExec(docs, rm, qb) == deleteFound(docs, rm, qb, exec(docs, qb))

\* deleteIds without the test for an id filter.
deleteIds_NoIdTest(docs, rm, q, model, t) ==
    IF ~t.ok THEN Done(Thrown(t.error), <<>>, docs, rm)
    ELSE deleteExec(docs, rm, QueryBuilder(t.mode, model, t.idQuery))

deleteIds(docs, rm, q, model, t) ==
    IF ~t.ok THEN Done(Thrown(t.error), <<>>, docs, rm)
    ELSE IF Falsy(q.idOrIds)
    THEN Done(Rejected(APIError(400, "You must specify some resources to delete"), FALSE),
              <<>>, docs, rm)
    ELSE deleteExec(docs, rm, QueryBuilder(t.mode, model, t.idQuery))

deleteModel(docs, rm, q, m) ==
    IF ~m.ok THEN Done(Thrown(m.error), <<>>, docs, rm)
    ELSE deleteIds(docs, rm, q, m.model, getIdQueryType(q.idOrIds))

delete(docs, rm, q) == deleteModel(docs, rm, q, getModel(getModelName(q.using)))

----------------------------------------------------------------------------
(* addToRelationship, removeFromRelationship *)

RelationshipCall(model, id) == StoreCall("findOneAndUpdate", model, IdEq(id))

\* addToSet that appends every id ($push).
addToSet_Push(arr, ids, i) == arr \o ids

RECURSIVE addToSet(_, _, _)
\* $addToSet with $each: every id the array lacks is appended, in order.
addToSet(arr, ids, i) ==
    IF i > Len(ids) THEN arr
    ELSE addToSet(IF arrayContains(arr, ids[i]) THEN arr ELSE Append(arr, ids[i]), ids, i + 1)

\* pullAll that removes the first element ($pop).
pullAll_PopFirst(arr, ids) == Drop(arr, 1)

\* $pullAll: every occurrence of every id is removed.
pullAll(arr, ids) == LET Stays(x) == ~arrayContains(ids, x) IN Filter(arr, Stays)

linkageIds(linkage) == [i \in 1..Len(linkage) |-> linkage[i].id]

\* The update object: $addToSet or $pullAll of the ids on one path.
RelationshipUpdate(op, path, ids) == [op |-> op, path |-> path, ids |-> ids]

\* The value of a to-many path after the update.
applyRelationshipUpdate(arr, upd) ==
    IF upd.op = "$addToSet" THEN addToSet(arr, upd.ids, 1) ELSE pullAll(arr, upd.ids)

\* model.findOneAndUpdate({_id: id}, update, options): one atomic update of
\* the matching document.  Only a to-many path of the schema is changed.
findOneAndUpdate(docs, model, id, upd) ==
    [i \in 1..Len(docs) |->
       IF /\ docs[i].model = model
          /\ docs[i]._id = id
          /\ upd.path = F_liaisons
          /\ arrayContains(getReferencePaths(model), upd.path)
       THEN [docs[i] EXCEPT !.liaisons = applyRelationshipUpdate(docs[i].liaisons, upd)]
       ELSE docs[i]]

\* What its promise fulfils with: the document as it was, or null (none).
relationshipEnd(docs, rm, q, m, upd) ==
    IF ~m.ok THEN Done(Thrown(m.error), <<>>, docs, rm)
    ELSE Done(Fulfilled(RawDocs(FALSE, updatedDoc(docs, m.model, q.resourceId))),
              <<RelationshipCall(m.model, q.resourceId)>>,
              findOneAndUpdate(docs, m.model, q.resourceId, upd), rm)

addToRelationship(docs, rm, q) ==
    relationshipEnd(docs, rm, q, getModel(getModelName(q.using)),
                    RelationshipUpdate("$addToSet", q.relationshipName, linkageIds(q.linkage)))

removeFromRelationship(docs, rm, q) ==
    relationshipEnd(docs, rm, q, getModel(getModelName(q.using)),
                    RelationshipUpdate("$pullAll", q.relationshipName, linkageIds(q.linkage)))

----------------------------------------------------------------------------
(* doQuery *)

\* query instanceof <Kind>Query: the query classes extend Query side by side.
InstanceOf(q, kind) == q.kind = kind

\* methodOf without the test for UpdateQuery.
methodOf_NoUpdate(q) ==
    IF InstanceOf(q, "Create") THEN "create"
    ELSE IF InstanceOf(q, "Find") THEN "find"
    ELSE IF InstanceOf(q, "Delete") THEN "delete"
    ELSE IF InstanceOf(q, "AddToRelationship") THEN "addToRelationship"
    ELSE IF InstanceOf(q, "RemoveFromRelationship") THEN "removeFromRelationship"
    ELSE "none"

\* The chain of instanceof tests, in the order of the code.
methodOf(q) ==
    IF InstanceOf(q, "Create") THEN "create"
    ELSE IF InstanceOf(q, "Find") THEN "find"
    ELSE IF InstanceOf(q, "Delete") THEN "delete"
    ELSE IF InstanceOf(q, "Update") THEN "update"
    ELSE IF InstanceOf(q, "AddToRelationship") THEN "addToRelationship"
    ELSE IF InstanceOf(q, "RemoveFromRelationship") THEN "removeFromRelationship"
    ELSE "none"

\* method.call(this, query), or the throw when there is no method.
call(m, docs, rm, q) ==
    CASE m = "create" -> create(docs, rm, q)
      [] m = "find" -> find(docs, rm, q)
      [] m = "delete" -> delete(docs, rm, q)
      [] m = "update" -> update(docs, rm, q)
      [] m = "addToRelationship" -> addToRelationship(docs, rm, q)
      [] m = "removeFromRelationship" -> removeFromRelationship(docs, rm, q)
      [] OTHER -> Done(Thrown(QueryTypeError), <<>>, docs, rm)

\* The state after one call of doQuery.  The store holds at most MaxDocs
\* documents.
Ends(q, m, r) ==
    /\ Len(r.store) <= MaxDocs
    /\ query' = q
    /\ method' = m
    /\ calls' = r.calls
    /\ outcome' = r.outcome
    /\ store' = r.store
    /\ removing' = r.removing
    /\ UNCHANGED <<concurrent, sorting>>

doQuery(q) == Ends(q, methodOf(q), call(methodOf(q), store, removing, q))

\* The caller holds no call whose outcome it has not taken.
CallerReady == outcome.state = "idle"

----------------------------------------------------------------------------
(* The queries callers hand to doQuery. *)

Id1 == StoreIds[1]
Id2 == StoreIds[2]
Id3 == StoreIds[3]

Offsets == {NoNum} \cup {Num(n) : n \in 0..MaxPage}

\* A single id (valid, too short), the empty string, no id, and arrays of a
\* valid id and one that is no hex string.
IdFilters ==
    {IdUndefined, IdString(<<>>), IdString(Id1), IdString(ShortId)}
    \cup {IdArray(a) : a \in SeqsUpTo({Id1, NonHexId}, MaxIds)}

NameFilters == {<<>>, <<[field |-> F_name, value |-> "x"]>>}

Sorts == {<<>>, <<[field |-> F_name, direction |-> "DESC"]>>}

\* For a type: its declared path, a path it does not declare, and a nested
\* path under each of them.
IncludePathsOf(type) ==
    LET declared == IF type = "people" THEN F_manages ELSE F_liaisons
    IN {declared, F_name, declared \o <<Dot>> \o F_name, F_name \o <<Dot>> \o F_name}

Includes(type) == {NoPaths} \cup {Paths(ps) : ps \in SeqsUpTo(IncludePathsOf(type), MaxIncludes)}

\* The Finds on a type: every id filter, filter and page with and without
\* the declared include, and every list of includes with and without an id
\* and a limit.
FindQueriesOf(type) ==
    {FindQuery(type, ids, filters, <<>>, offset, limit, populates) :
        ids \in IdFilters, filters \in NameFilters,
        offset \in Offsets, limit \in Offsets,
        populates \in {NoPaths, Paths(getReferencePaths(getModelName(type)))}}
    \cup {FindQuery(type, ids, <<>>, <<>>, NoNum, limit, populates) :
        ids \in {IdUndefined, IdString(Id1)}, limit \in {NoNum, Num(1)},
        populates \in Includes(type)}

FindQueries == UNION {FindQueriesOf(type) : type \in Types}

\* The Finds of the whole adapter's specification: a few of FindQueries.
CoreFindQueries ==
    {FindQuery(type, ids, <<>>, sorts, NoNum, limit, populates) :
        type \in Types, ids \in {IdUndefined, IdString(Id1), IdArray(<<Id1>>)},
        sorts \in Sorts, limit \in {NoNum, Num(1)},
        populates \in {NoPaths, Paths(<<F_liaisons>>)}}

NewResource(type, name) == Resource(type, NoId, (F_name :> VStr(name)), <<>>)

RecordsOf(pool) ==
    {Records(FALSE, <<r>>) : r \in pool}
    \cup {Records(TRUE, rs) : rs \in SeqsUpTo(pool, MaxRecords)}

CreateQueries ==
    {[kind |-> "Create", using |-> "people", records |-> recs] :
        recs \in RecordsOf({NewResource(type, "x") : type \in Types}
                           \cup {NewResource("people", "y")})}

\* A patch of the name alone, and one of the liaisons alone (to none).
Patch(type, id) == Resource(type, id, (F_name :> VStr("y")), <<>>)
PatchLinks(type, id) == Resource(type, id, <<>>, (F_liaisons :> Linkage(TRUE, <<>>)))

UpdateQueries ==
    {[kind |-> "Update", using |-> using, patch |-> recs] :
        using \in {"organizations", "ghosts"},
        recs \in RecordsOf({Patch(type, Id1) : type \in {"organizations", "ghosts"}}
                           \cup {PatchLinks("organizations", Id1)})}

DeleteQueries ==
    {[kind |-> "Delete", using |-> using, idOrIds |-> ids] :
        using \in Types, ids \in IdFilters}

RelationshipQueries(kind) ==
    {[kind |-> kind, using |-> using, resourceId |-> id,
      relationshipName |-> F_liaisons, linkage |-> linkage] :
        using \in {"organizations", "ghosts"}, id \in {Id1, Id2},
        linkage \in SeqsUpTo({Link("people", Id1)}, MaxIds)}

\* A query of none of the six classes.
OtherQueries == {[kind |-> "Query", using |-> type] : type \in Types}

----------------------------------------------------------------------------
(* The adapter on an empty database. *)

Init ==
    /\ store = <<>>
    /\ removing = {}
    /\ query = [kind |-> "none"]
    /\ method = "none"
    /\ calls = <<>>
    /\ outcome = Idle
    /\ inflight = <<>>
    /\ applied = <<>>
    /\ base = store
    /\ NotSorting

Create ==
    /\ CallerReady
    /\ \E q \in CreateQueries : doQuery(q)

Find ==
    /\ CallerReady
    /\ \E q \in CoreFindQueries : doQuery(q)

Delete ==
    /\ CallerReady
    /\ \E q \in DeleteQueries : doQuery(q)

Update ==
    /\ CallerReady
    /\ \E q \in UpdateQueries : doQuery(q)

AddToRelationship ==
    /\ CallerReady
    /\ \E q \in RelationshipQueries("AddToRelationship") : doQuery(q)

RemoveFromRelationship ==
    /\ CallerReady
    /\ \E q \in RelationshipQueries("RemoveFromRelationship") : doQuery(q)

Other ==
    /\ CallerReady
    /\ \E q \in OtherQueries : doQuery(q)

\* The caller has taken the outcome of its call (the step of the request
\* pipeline that called doQuery goes on) and may call again.
Settle ==
    /\ outcome.state # "idle"
    /\ outcome' = Idle
    /\ query' = [kind |-> "none"]
    /\ method' = "none"
    /\ calls' = <<>>
    /\ UNCHANGED <<store, removing>>
    /\ UNCHANGED <<concurrent, sorting>>

\* A remove() that a delete started completes.
Remove ==
    \E id \in removing :
        LET Stays(d) == d._id # id
        IN /\ store' = Filter(store, Stays)
           /\ removing' = removing \ {id}
           /\ UNCHANGED <<query, method, calls, outcome>>
           /\ UNCHANGED <<concurrent, sorting>>

Next ==
    \/ Create
    \/ Find
    \/ Delete
    \/ Update
    \/ AddToRelationship
    \/ RemoveFromRelationship
    \/ Other
    \/ Settle
    \/ Remove

Spec == Init /\ [][Next]_vars

----------------------------------------------------------------------------
(* Find on its own, over all its inputs, on databases of a few documents. *)

Fixtures ==
    <<Doc(Id1, "Organization", "x", NoId, <<Id3, Id2>>),
      Doc(Id2, "Organization", "y", NoId, <<>>),
      Doc(Id3, "Person", "x", Id1, <<>>),
      Doc(StoreIds[4], "Organization", "x", NoId, <<Id3>>)>>

\* The databases that hold at most MaxDocs of the fixtures, in their order.
FixtureStores ==
    {s \in SeqsUpTo(Range(Fixtures), MaxDocs) :
        \A i, j \in 1..Len(s) : i < j =>
            \E a, b \in 1..Len(Fixtures) : a < b /\ Fixtures[a] = s[i] /\ Fixtures[b] = s[j]}

InitFind ==
    /\ store \in FixtureStores
    /\ removing = {}
    /\ query = [kind |-> "none"]
    /\ method = "none"
    /\ calls = <<>>
    /\ outcome = Idle
    /\ inflight = <<>>
    /\ applied = <<>>
    /\ base = store
    /\ NotSorting

FindAny ==
    /\ CallerReady
    /\ \E q \in FindQueries : doQuery(q)

NextFind == FindAny \/ Settle

SpecFind == InitFind /\ [][NextFind]_vars

----------------------------------------------------------------------------
(* Relationship updates of one document sent side by side: each call of     *)
(* addToRelationship or removeFromRelationship hands one findOneAndUpdate   *)
(* to the store, which executes those it holds one at a time, in any order. *)

L2 == Link("people", Id2)
L3 == Link("people", Id3)

\* An organization with no, one, two and a doubled liaison, next to another
\* organization and a person.
LinkageStores ==
    {<<Doc(Id1, "Organization", "x", NoId, liaisons),
       Doc(Id2, "Organization", "y", NoId, <<Id3>>),
       Doc(Id3, "Person", "x", Id1, <<>>)>> :
        liaisons \in {<<>>, <<Id3>>, <<Id3, Id2>>, <<Id2, Id2>>}}

LinkageQueries ==
    {[kind |-> kind, using |-> "organizations", resourceId |-> Id1,
      relationshipName |-> F_liaisons, linkage |-> linkage] :
        kind \in {"AddToRelationship", "RemoveFromRelationship"},
        linkage \in {<<>>, <<L2>>, <<L3>>, <<L2, L3>>, <<L3, L3>>}}

\* storeAfter that saves what the update makes of the document as it was
\* when the update was sent (a find, then a save).
storeAfter_FindThenSave(q, docs, seen) ==
    [i \in 1..Len(docs) |->
       IF docs[i]._id = q.resourceId
       THEN call(methodOf(q), seen, {}, q).store[i] ELSE docs[i]]

\* The store after it executed the findOneAndUpdate of the query: the update
\* acts on the document as the store holds it then, whatever it was (seen)
\* when the update was sent.
storeAfter(q, docs, seen) == call(methodOf(q), docs, {}, q).store

InitLinkage ==
    /\ store \in LinkageStores
    /\ removing = {}
    /\ query = [kind |-> "none"]
    /\ method = "none"
    /\ calls = <<>>
    /\ outcome = Idle
    /\ inflight = <<>>
    /\ applied = <<>>
    /\ base = store
    /\ NotSorting

\* doQuery is called with a relationship query: its update goes to the store.
Send ==
    /\ Len(inflight) + Len(applied) < MaxOps
    /\ \E q \in LinkageQueries : inflight' = Append(inflight, [q |-> q, seen |-> store])
    /\ UNCHANGED <<store, removing, query, method, calls, outcome, applied, base>>
    /\ UNCHANGED sorting

\* The store executes one of the updates it holds.
Execute ==
    \E i \in 1..Len(inflight) :
        /\ store' = storeAfter(inflight[i].q, store, inflight[i].seen)
        /\ applied' = Append(applied, inflight[i])
        /\ inflight' = [k \in 1..(Len(inflight) - 1) |->
                          IF k < i THEN inflight[k] ELSE inflight[k + 1]]
        /\ UNCHANGED <<removing, query, method, calls, outcome, base>>
        /\ UNCHANGED sorting

NextLinkage == Send \/ Execute

SpecLinkage == InitLinkage /\ [][NextLinkage]_vars

----------------------------------------------------------------------------
(* Find with a field selection, on databases of one document: what          *)
(* docToResource makes of each kind of document.                            *)

\* A person with and without an organization; organizations with no, one
\* and two liaisons and with liaisons stored as null; names empty or not.
MapDocs ==
    {Doc(Id1, "Person", "x", Id2, <<>>), Doc(Id1, "Person", "", NoId, <<>>),
     DocWithNull(Id1, "x")}
    \cup {Doc(Id1, "Organization", name, NoId, liaisons) :
            name \in {"x", ""}, liaisons \in {<<>>, <<Id3>>, <<Id3, Id2>>}}

MapStores == {<<doc>> : doc \in MapDocs}

\* The names a selection may hold: the paths of the schemas, _id, and a name
\* no document has.
FieldNames == {F_name, F_manages, F_liaisons, K__id, <<"nickname">>}

FieldSelections ==
    {NoFields}
    \cup {[def |-> TRUE, type |-> type, names |-> names] :
            type \in {"people", "organizations"}, names \in SeqsUpTo(FieldNames, MaxFields)}

MapQueries ==
    {[FindQuery(type, ids, <<>>, <<>>, NoNum, NoNum, NoPaths) EXCEPT !.select = fields] :
        type \in {"people", "organizations"}, ids \in {IdUndefined, IdString(Id1)},
        fields \in FieldSelections}

InitMap ==
    /\ store \in MapStores
    /\ removing = {}
    /\ query = [kind |-> "none"]
    /\ method = "none"
    /\ calls = <<>>
    /\ outcome = Idle
    /\ inflight = <<>>
    /\ applied = <<>>
    /\ base = store
    /\ NotSorting

FindSelected ==
    /\ CallerReady
    /\ \E q \in MapQueries : doQuery(q)

NextMap == FindSelected \/ Settle

SpecMap == InitMap /\ [][NextMap]_vars

----------------------------------------------------------------------------
(* pseudoTopSort (src/unnamed/part_000): the restricted topological sort.   *)
(* A node is a string.  edges is an object from a node to the object of     *)
(* its children; an object is iterated in the order its keys were added,    *)
(* so the children of a node are a sequence without repetition.             *)

NodeNames == <<"A", "B", "C", "D", "E">>

\* The sequences without repetition of members of the set.
DistinctSeqs(S, n) == {s \in SeqsUpTo(S, n) : \A i, j \in 1..Len(s) : s[i] = s[j] => i = j}

\* The edges as written down one after the other, each as <<from, to>>.
Written(N) == DistinctSeqs(N \X N, MaxEdges)

\* The edges written down that leave the node.
leaving(written, from) == Filter(written, LAMBDA e : e[1] = from)

\* The object literal made of them: {from: {to: true, ...}, ...}.
edgesOf(written) ==
    [from \in {written[i][1] : i \in 1..Len(written)} |->
        [k \in 1..Len(leaving(written, from)) |-> leaving(written, from)[k][2]]]

\* The arguments of a call on the first n nodes.
SortArgs(n, written, given) ==
    [def |-> TRUE, nodes |-> SubSeq(NodeNames, 1, n), edges |-> edgesOf(written),
     roots |-> given]

\* The first n nodes.
FirstNodes(n) == Range(SubSeq(NodeNames, 1, n))

\* The lists of roots: the lists of distinct nodes, and such a list with
\* its first node given once more at the end.
RootLists(N, n) ==
    DistinctSeqs(N, n)
    \cup {Append(s, s[1]) : s \in DistinctSeqs(N, n - 1) \ {<<>>}}

childrenOf_None(es, thisRoot) == <<>>

\* edges[thisRoot] || {}
childrenOf(es, thisRoot) == IF thisRoot \in DOMAIN es THEN es[thisRoot] ELSE <<>>

withoutChildren_Keep(es, thisRoot) == es

\* for(const child in thisRootChildren) delete thisRootChildren[child]
withoutChildren(es, thisRoot) ==
    IF thisRoot \in DOMAIN es THEN [es EXCEPT ![thisRoot] = <<>>] ELSE es

\* The call: the defensive copies and the empty result.
InitSort ==
    /\ store = <<>>
    /\ removing = {}
    /\ query = [kind |-> "none"]
    /\ method = "none"
    /\ calls = <<>>
    /\ outcome = Idle
    /\ inflight = <<>>
    /\ applied = <<>>
    /\ base = <<>>
    /\ \E n \in 1..MaxNodes :
          \E written \in Written(FirstNodes(n)) :
              \E given \in RootLists(FirstNodes(n), n) :
                  args = SortArgs(n, written, given)
    /\ roots = args.roots
    /\ edges = args.edges
    /\ sortResult = <<>>
    /\ returned = FALSE

\* One turn of while(roots.length): shift the first root, push it on the
\* result, remove its edges and push its children on roots.
Shift ==
    /\ args.def
    /\ ~returned
    /\ Len(roots) > 0
    /\ sortResult' = Append(sortResult, Head(roots))
    /\ edges' = withoutChildren(edges, Head(roots))
    /\ roots' = Tail(roots) \o childrenOf(edges, Head(roots))
    /\ UNCHANGED <<args, returned>>
    /\ UNCHANGED <<store, removing, query, method, calls, outcome, concurrent>>

\* roots is empty: return sortResult.
Return ==
    /\ args.def
    /\ ~returned
    /\ Len(roots) = 0
    /\ returned' = TRUE
    /\ UNCHANGED <<args, roots, edges, sortResult>>
    /\ UNCHANGED <<store, removing, query, method, calls, outcome, concurrent>>

NextSort == Shift \/ Return

SpecSort == InitSort /\ [][NextSort]_vars

\* pseudoTopSort is synchronous code on one thread: once called, it takes
\* its next turn until it returns.
SpecSortFair == SpecSort /\ WF_vars(NextSort)

----------------------------------------------------------------------------
(* What the claims speak of. *)

\* The six query classes.
QueryKinds == {"Create", "Find", "Delete", "Update", "AddToRelationship",
               "RemoveFromRelationship"}

\* The call failed with an APIError of the status, thrown or by rejection.
Failed(status) ==
    /\ outcome.state \in {"thrown", "rejected"}
    /\ outcome.error.name = "APIError"
    /\ outcome.error.status = status

\* The adapter holds a model for the type of the query.
Served(type) == getModelName(type) \in models

\* A primary key of the store: 24 hex characters.
IsPrimaryKey(id) == Len(id) = IdLen /\ \A i \in 1..Len(id) : id[i] \in HexChars

\* The id filter is one id, and not an array.
SingleId(f) == f.tag = "string" /\ f.str # <<>>

\* The primary query the operation executed, if it executed one.
Primary == LET IsPrimary(c) == c.op \in {"find", "findOne"} IN Filter(calls, IsPrimary)

\* The count queries the operation issued.
Counts == LET IsCount(c) == c.op = "count" IN Filter(calls, IsCount)

\* The document is one the id filter and the equality filters of the query select.
Selected(d, q) ==
    /\ d.model = getModelName(q.using)
    /\ q.idOrIds.tag = "array" => \E k \in 1..Len(q.idOrIds.arr) : q.idOrIds.arr[k] = d._id
    /\ SingleId(q.idOrIds) => d._id = q.idOrIds.str

SelectedBy(d, q) ==
    /\ Selected(d, q)
    /\ \A k \in 1..Len(q.filters) : q.filters[k].field = F_name => d.name = q.filters[k].value

\* A step that is a call of doQuery.
IsCall == outcome.state = "idle" /\ outcome'.state # "idle"

----------------------------------------------------------------------------
(* C1 *)

\* The end of the operation that belongs to the class of the query.
OwnOperation(docs, rm, q) ==
    CASE q.kind = "Create" -> create(docs, rm, q)
      [] q.kind = "Find" -> find(docs, rm, q)
      [] q.kind = "Delete" -> delete(docs, rm, q)
      [] q.kind = "Update" -> update(docs, rm, q)
      [] q.kind = "AddToRelationship" -> addToRelationship(docs, rm, q)
      [] q.kind = "RemoveFromRelationship" -> removeFromRelationship(docs, rm, q)

OwnMethod(kind) ==
    CASE kind = "Create" -> "create"
      [] kind = "Find" -> "find"
      [] kind = "Delete" -> "delete"
      [] kind = "Update" -> "update"
      [] kind = "AddToRelationship" -> "addToRelationship"
      [] kind = "RemoveFromRelationship" -> "removeFromRelationship"

C1_Step ==
    IsCall =>
        IF query'.kind \in QueryKinds
        THEN /\ method' = OwnMethod(query'.kind)
             /\ Done(outcome', calls', store', removing') = OwnOperation(store, removing, query')
        ELSE /\ outcome' = Thrown(QueryTypeError)
             /\ outcome'.error.name = "Error"
             /\ calls' = <<>>
             /\ store' = store
             /\ removing' = removing

\* C1: doQuery runs, for a query of each of the six classes, the operation of
\* that class and no other (the call ends as that operation ends, with its
\* store calls and its effect on the store); for any other query it throws a
\* plain Error, makes no store call and changes nothing.
Thm_C1 == [][C1_Step]_vars

\* A query of no class was handed in on a store that holds documents, and
\* the call threw the plain Error.
Wit_C1 ==
    /\ query.kind = "Query"
    /\ outcome.state = "thrown"
    /\ outcome.error.name = "Error"
    /\ store # <<>>

----------------------------------------------------------------------------
(* C2 *)

\* C2: a Find on a type the adapter serves fails with an APIError 400 when
\* its id filter is an array that holds an id that is no primary key, and
\* with an APIError 404 when it is one non-empty string that is no primary
\* key; when every given id is a primary key the call does not end with
\* the error of the id validation.
Thm_C2 ==
    (query.kind = "Find" /\ Served(query.using)) =>
        /\ (/\ query.idOrIds.tag = "array"
            /\ \E i \in 1..Len(query.idOrIds.arr) : ~IsPrimaryKey(query.idOrIds.arr[i]))
           => Failed(400)
        /\ (SingleId(query.idOrIds) /\ ~IsPrimaryKey(query.idOrIds.str)) => Failed(404)
        /\ (/\ \A i \in 1..Len(query.idOrIds.arr) : IsPrimaryKey(query.idOrIds.arr[i])
            /\ SingleId(query.idOrIds) => IsPrimaryKey(query.idOrIds.str))
           => (outcome.error.title # "Invalid ID." /\ outcome.error.detail # "Invalid ID.")

\* A Find whose id array holds a primary key and then an id that is none
\* failed with 400.
Wit_C2 ==
    /\ query.kind = "Find"
    /\ Served(query.using)
    /\ query.idOrIds = IdArray(<<Id1, NonHexId>>)
    /\ Failed(400)

----------------------------------------------------------------------------
(* C3 *)

\* The ids of the resources the call fulfilled with.
FoundIds == {outcome.value.primary.resources[i].id :
                i \in 1..Len(outcome.value.primary.resources)}

\* C3: the primary query of a Find is decided by the id filter alone: one id
\* gives findOne on that id; an array, empty or not, gives find on the ids
\* of the array, so that no document outside the array is found and an empty
\* array finds none; no id filter gives find with the empty criteria.
Thm_C3 ==
    (query.kind = "Find" /\ Primary # <<>>) =>
        /\ SingleId(query.idOrIds) =>
              /\ Primary[1].op = "findOne"
              /\ Primary[1].idQuery = [op |-> "eq", ids |-> <<query.idOrIds.str>>]
              /\ FoundIds \subseteq {query.idOrIds.str}
        /\ query.idOrIds.tag = "array" =>
              /\ Primary[1].op = "find"
              /\ Primary[1].idQuery = [op |-> "in", ids |-> query.idOrIds.arr]
              /\ FoundIds \subseteq Range(query.idOrIds.arr)
        /\ query.idOrIds.tag = "undefined" =>
              /\ Primary[1].op = "find"
              /\ Primary[1].idQuery = [op |-> "all", ids |-> <<>>]

\* A Find with the empty array, on a store that holds documents of the
\* type, found no document.
Wit_C3 ==
    /\ query.kind = "Find"
    /\ query.idOrIds = IdArray(<<>>)
    /\ \E i \in 1..Len(store) : store[i].model = getModelName(query.using)
    /\ outcome.state = "fulfilled"
    /\ outcome.value.primary.resources = <<>>

----------------------------------------------------------------------------
(* C4 *)

\* No stored document is selected by the id filter and the other filters.
NoMatch == \A i \in 1..Len(store) : ~SelectedBy(store[i], query)

\* C4: a Find fulfils with one Resource exactly when its id filter is one
\* id, and with a Collection otherwise; when its primary query ran and no
\* stored document matches, it fails with APIError 404 for one id and
\* fulfils with the empty Collection otherwise.
Thm_C4 ==
    query.kind = "Find" =>
        /\ outcome.state = "fulfilled" =>
              /\ outcome.value.primary.shape = "Resource" <=> SingleId(query.idOrIds)
              /\ outcome.value.primary.shape = "Collection" <=> ~SingleId(query.idOrIds)
        /\ (Primary # <<>> /\ NoMatch /\ SingleId(query.idOrIds)) =>
              (Failed(404) /\ outcome.state = "rejected")
        /\ (Primary # <<>> /\ NoMatch /\ ~SingleId(query.idOrIds)) =>
              /\ outcome.state = "fulfilled"
              /\ outcome.value.primary = [shape |-> "Collection", resources |-> <<>>]

\* A Find for one id that no stored document has was rejected with 404.
Wit_C4 ==
    /\ query.kind = "Find"
    /\ SingleId(query.idOrIds)
    /\ Primary # <<>>
    /\ NoMatch
    /\ store # <<>>
    /\ Failed(404)

----------------------------------------------------------------------------
(* C5 *)

\* Offset or limit is set on the query.
Paging(q) == q.offset.def \/ q.limit.def

\* The number of stored documents the filters of the query select.
Matches == Cardinality({i \in 1..Len(store) : SelectedBy(store[i], query)})

\* C5: a Find with offset or limit set that reports a total count reports
\* the number of stored documents that match the filters of the primary
\* query, the ids of an id array among them, with offset and limit ignored.
Cex_C5 ==
    (/\ query.kind = "Find"
     /\ outcome.state = "fulfilled"
     /\ Paging(query)
     /\ outcome.value.size.def)
    => outcome.value.size.n = Matches

----------------------------------------------------------------------------
(* C6 *)

\* Every id the filter gives is a primary key.
IdsValid(f) ==
    /\ \A i \in 1..Len(f.arr) : IsPrimaryKey(f.arr[i])
    /\ SingleId(f) => IsPrimaryKey(f.str)

\* C6: a Find on a served type with valid ids issues the count query, and
\* reports a total size when it fulfils, exactly when offset or limit is
\* present and its id filter is not one id; otherwise it issues no count
\* query and reports no size.
Cex_C6 ==
    (query.kind = "Find" /\ Served(query.using) /\ IdsValid(query.idOrIds)) =>
        /\ Counts # <<>> <=> (Paging(query) /\ ~SingleId(query.idOrIds))
        /\ outcome.state = "fulfilled" =>
              (outcome.value.size.def <=> (Paging(query) /\ ~SingleId(query.idOrIds)))

----------------------------------------------------------------------------
(* C7 *)

Segments(path) == Split(path, Dot)

\* The relationship paths the type declares.
DeclaredPaths(type) == Range(getReferencePaths(getModelName(type)))

UnknownPath(q, i) == Segments(q.populates.paths[i])[1] \notin DeclaredPaths(q.using)

NestedPath(q, i) == ~UnknownPath(q, i) /\ Len(Segments(q.populates.paths[i])) > 1

\* The first include path, in list order, that is not one declared segment.
FirstBad(q) ==
    {i \in 1..Len(q.populates.paths) :
        /\ UnknownPath(q, i) \/ NestedPath(q, i)
        /\ \A j \in 1..(i - 1) : ~UnknownPath(q, j) /\ ~NestedPath(q, j)}

\* C7: a Find with include paths, on a served type and with valid ids, fails
\* with APIError 400 when the first path that is not a single declared
\* segment has an undeclared first segment, and with APIError 501 when that
\* path is nested under a declared one, the primary query not being
\* executed; when every path is a single declared segment the primary query
\* is executed with exactly those paths populated.
Thm_C7 ==
    (/\ query.kind = "Find"
     /\ Served(query.using)
     /\ IdsValid(query.idOrIds)
     /\ query.populates.def) =>
        /\ \A i \in FirstBad(query) :
              /\ Primary = <<>>
              /\ UnknownPath(query, i) => Failed(400)
              /\ NestedPath(query, i) => Failed(501)
        /\ FirstBad(query) = {} =>
              /\ Primary # <<>>
              /\ Primary[1].populate = query.populates.paths

\* A Find on organizations that included liaisons and then a path nested
\* under liaisons failed with 501.
Wit_C7 ==
    /\ query.kind = "Find"
    /\ query.using = "organizations"
    /\ IdsValid(query.idOrIds)
    /\ query.populates = Paths(<<F_liaisons, F_liaisons \o <<Dot>> \o F_name>>)
    /\ Failed(501)
    /\ Primary = <<>>

----------------------------------------------------------------------------
(* C8 *)

C8_Step ==
    (/\ IsCall
     /\ query'.kind = "Delete"
     /\ Served(query'.using)
     /\ Falsy(query'.idOrIds)) =>
        /\ outcome'.state = "rejected"
        /\ outcome'.error.name = "APIError"
        /\ outcome'.error.status = 400
        /\ calls' = <<>>
        /\ store' = store
        /\ removing' = removing

\* C8: a Delete on a served type whose id filter is absent (undefined, or
\* the empty string) fails with APIError 400; it makes no store call, the
\* store is as it was before the call, and no removal is left pending.
Thm_C8 == [][C8_Step]_vars

\* A Delete without an id filter, on a store that holds documents of the
\* type, failed with 400 without a store call.
Wit_C8 ==
    /\ query.kind = "Delete"
    /\ Served(query.using)
    /\ query.idOrIds = IdUndefined
    /\ \E i \in 1..Len(store) : store[i].model = getModelName(query.using)
    /\ Failed(400)
    /\ calls = <<>>

----------------------------------------------------------------------------
(* C9 *)

C9_Step ==
    (/\ IsCall
     /\ query'.kind = "Delete"
     /\ Served(query'.using)
     /\ SingleId(query'.idOrIds) \/ query'.idOrIds.tag = "array"
     /\ IdsValid(query'.idOrIds)
     /\ \A i \in 1..Len(store) : ~Selected(store[i], query')) =>
        /\ outcome'.state \in {"thrown", "rejected"}
        /\ outcome'.error.name = "APIError"
        /\ outcome'.error.status = 404
        /\ store' = store

\* C9: a Delete on a served type with one valid id, or an array of valid
\* ids (the empty array among them), that no stored document matches fails
\* with APIError 404 and leaves the store unchanged.
Cex_C9 == [][C9_Step]_vars

----------------------------------------------------------------------------
(* C10 *)

\* The permutations of 1..n.
Perms(n) == {p \in [1..n -> 1..n] : \A i, j \in 1..n : p[i] = p[j] => i = j}

\* The resources the Create was given and those it fulfilled with.
Given == query.records.resources
Returned == outcome.value.primary.resources

\* The create calls of the operation.
Creates == LET IsCreate(c) == c.op = "create" IN Filter(calls, IsCreate)

\* C10: a Create that fulfils returns one Resource for a single Resource
\* and a Collection for a Collection; the result holds one resource per
\* input resource, the resources of one type next to one another and in
\* input order; and one create call was made per distinct type, for the
\* resources of that type.
Thm_C10 ==
    (query.kind = "Create" /\ outcome.state = "fulfilled") =>
        /\ outcome.value.primary.shape =
              (IF query.records.isCollection THEN "Collection" ELSE "Resource")
        /\ Len(Returned) = Len(Given)
        /\ \E p \in Perms(Len(Given)) :
              /\ \A k \in 1..Len(Given) :
                    /\ Returned[k].type = Given[p[k]].type
                    /\ Get(Returned[k].attrs, F_name) = Get(Given[p[k]].attrs, F_name)
              /\ \A k, l \in 1..Len(Given) :
                    (k < l /\ Returned[k].type = Returned[l].type) => p[k] < p[l]
        /\ \A k, m, l \in 1..Len(Returned) :
              (k < m /\ m < l /\ Returned[k].type = Returned[l].type)
                 => Returned[m].type = Returned[k].type
        /\ Len(Creates) = Cardinality({Given[i].type : i \in 1..Len(Given)})
        /\ \A c \in 1..Len(Creates) :
              /\ \A d \in 1..Len(Creates) : Creates[c].model = Creates[d].model => c = d
              /\ Creates[c].limit =
                    Cardinality({i \in 1..Len(Given) :
                                    getModelName(Given[i].type) = Creates[c].model})

\* A Create of a person, an organization and then a second person returned
\* the two people, in input order, before the organization.
Wit_C10 ==
    /\ query.kind = "Create"
    /\ outcome.state = "fulfilled"
    /\ Len(Given) = 3
    /\ Given[1].type = "people" /\ Given[1].attrs[F_name] = VStr("x")
    /\ Given[2].type = "organizations"
    /\ Given[3].type = "people" /\ Given[3].attrs[F_name] = VStr("y")
    /\ Len(Returned) = 3
    /\ Returned[1].type = "people" /\ Returned[1].attrs[F_name] = VStr("x")
    /\ Returned[2].type = "people" /\ Returned[2].attrs[F_name] = VStr("y")
    /\ Returned[3].type = "organizations"

----------------------------------------------------------------------------
(* C11 *)

\* The updates the operation sent to the store, in the order of the patch.
Updates == LET IsUpdate(c) == c.op = "findByIdAndUpdate" IN Filter(calls, IsUpdate)

\* The paths a resource of a patch sets.
PatchPaths(r) == (DOMAIN r.attrs) \cup (DOMAIN r.relationships)

\* Some resource of the patch of the query for the id sets the path.
Mentions(q, id, path) ==
    \E k \in 1..Len(q.patch.resources) :
        q.patch.resources[k].id = id /\ path \in PatchPaths(q.patch.resources[k])

C11_Step ==
    (IsCall /\ query'.kind = "Update") =>
        /\ Len(Updates') <= Len(query'.patch.resources)
        /\ \A k \in 1..Len(Updates') :
              /\ DOMAIN Updates'[k].update \subseteq PatchPaths(query'.patch.resources[k])
              /\ \A f \in DOMAIN Updates'[k].update :
                    Updates'[k].update[f] = resourceToDocObject(query'.patch.resources[k])[f]
        /\ Len(store') = Len(store)
        /\ \A i \in 1..Len(store) :
              /\ store'[i]._id = store[i]._id
              /\ store'[i].model = store[i].model
              /\ ~Mentions(query', store[i]._id, F_name) => store'[i].name = store[i].name
              /\ ~Mentions(query', store[i]._id, F_manages) =>
                    store'[i].manages = store[i].manages
              /\ ~Mentions(query', store[i]._id, F_liaisons) =>
                    store'[i].liaisons = store[i].liaisons

\* C11: the update object an Update sends to the store for a resource, of a
\* single patch or of a batch, holds only paths the resource of the patch
\* sets, each with the value the patch gives it; a stored field no resource
\* of the patch mentions for the document keeps its stored value, so the
\* default of the schema (the empty array of a to-many path) is written
\* only when the patch supplies it.
Thm_C11 == [][C11_Step]_vars

\* An Update of the name alone was sent as an update of the name alone, to
\* an organization that holds liaisons and holds them still.
Wit_C11 ==
    /\ query.kind = "Update"
    /\ query.patch.resources = <<Patch("organizations", Id1)>>
    /\ outcome.state = "fulfilled"
    /\ Len(Updates) = 1
    /\ Updates[1].update = (F_name :> VStr("y"))
    /\ \E i \in 1..Len(store) :
          /\ store[i]._id = Id1
          /\ store[i].model = "Organization"
          /\ store[i].name = "y"
          /\ store[i].liaisons # <<>>

----------------------------------------------------------------------------
(* C12 *)

\* How often the id occurs in the array.
Count(arr, id) == Cardinality({k \in 1..Len(arr) : arr[k] = id})

\* The ids a relationship query gives.
GivenIds(q) == {q.linkage[k].id : k \in 1..Len(q.linkage)}

\* The store has executed one more relationship update.
IsExecute == Len(applied') = Len(applied) + 1

AddedTo(before, after, given) ==
    /\ Range(after) = Range(before) \cup given
    /\ \A id \in Range(after) :
          /\ Count(after, id) >= Count(before, id)
          /\ Count(after, id) <= (IF Count(before, id) = 0 THEN 1 ELSE Count(before, id))

RemovedFrom(before, after, given) ==
    /\ Range(after) = Range(before) \ given
    /\ \A id \in Range(after) : Count(after, id) = Count(before, id)

C12_Step ==
    IsExecute =>
        /\ Len(store') = Len(store)
        /\ \A i \in 1..Len(store) :
              /\ store'[i] = [store[i] EXCEPT !.liaisons = store'[i].liaisons]
              /\ store[i]._id # applied'[Len(applied')].q.resourceId => store'[i] = store[i]
              /\ (/\ store[i]._id = applied'[Len(applied')].q.resourceId
                  /\ applied'[Len(applied')].q.kind = "AddToRelationship") =>
                    AddedTo(store[i].liaisons, store'[i].liaisons,
                            GivenIds(applied'[Len(applied')].q))
              /\ (/\ store[i]._id = applied'[Len(applied')].q.resourceId
                  /\ applied'[Len(applied')].q.kind = "RemoveFromRelationship") =>
                    RemovedFrom(store[i].liaisons, store'[i].liaisons,
                                GivenIds(applied'[Len(applied')].q))

\* C12: after addToRelationship the to-many path of the document holds
\* every id it held and every given id, an id it held as often as before
\* and a new id once; after removeFromRelationship it holds none of the
\* given ids and every other id as often as before; every other path of
\* the document and every other document is unchanged.
Thm_C12 == [][C12_Step]_vars

\* An add of an id twice, to liaisons that hold another id, has added it once.
Wit_C12 ==
    /\ Len(applied) = 1
    /\ applied[1].q.kind = "AddToRelationship"
    /\ applied[1].q.linkage = <<L3, L3>>
    /\ base[1].liaisons = <<Id2, Id2>>
    /\ store[1].liaisons = <<Id2, Id2, Id3>>

----------------------------------------------------------------------------
(* C13 *)

\* The store executed two updates and holds no other: an add of the one
\* link, then a remove of the same link on the same document and path.
AddThenRemove(link) ==
    /\ inflight = <<>>
    /\ Len(applied) = 2
    /\ applied[1].q.kind = "AddToRelationship"
    /\ applied[2].q.kind = "RemoveFromRelationship"
    /\ applied[1].q.linkage = <<link>>
    /\ applied[2].q.linkage = <<link>>
    /\ applied[1].q.resourceId = applied[2].q.resourceId
    /\ applied[1].q.relationshipName = applied[2].q.relationshipName

\* C13 as stated: for every prior linkage and every id, addToRelationship
\* of the id followed by removeFromRelationship of the same id on the same
\* document and path returns the path to its prior set of ids.
Cex_C13 ==
    \A link \in {L2, L3} :
        AddThenRemove(link) =>
            \A i \in 1..Len(store) :
                store[i]._id = applied[1].q.resourceId =>
                    Range(store[i].liaisons) = Range(base[i].liaisons)

\* C13, amended: for every prior linkage and every id the prior linkage
\* does not hold, addToRelationship of the id followed by
\* removeFromRelationship of the same id on the same document and path
\* returns the path to its prior linkage, and the store to what it was.
Thm_C13 ==
    \A link \in {L2, L3} :
        AddThenRemove(link) =>
            \A i \in 1..Len(store) :
                (/\ store[i]._id = applied[1].q.resourceId
                 /\ link.id \notin Range(base[i].liaisons)) =>
                    (store[i].liaisons = base[i].liaisons /\ store = base)

\* An id was added to liaisons that hold another id, then removed, and the
\* liaisons are what they were.
Wit_C13 ==
    /\ AddThenRemove(L2)
    /\ base[1].liaisons = <<Id3>>
    /\ store[1].liaisons = <<Id3>>

----------------------------------------------------------------------------
(* C14 *)

RECURSIVE Serially(_, _, _, _)
\* The store after the operations were called one after the other, each
\* after the one before it was done, in the order p.
Serially(docs, ops, p, k) ==
    IF k > Len(ops) THEN docs
    ELSE Serially(call(methodOf(ops[p[k]].q), docs, {}, ops[p[k]].q).store, ops, p, k + 1)

\* The operation makes one store call, a findOneAndUpdate of the document.
OneUpdate(q) ==
    /\ Len(call(methodOf(q), base, {}, q).calls) = 1
    /\ call(methodOf(q), base, {}, q).calls[1].op = "findOneAndUpdate"
    /\ call(methodOf(q), base, {}, q).calls[1].idQuery = [op |-> "eq", ids |-> <<q.resourceId>>]

\* C14: each addToRelationship and removeFromRelationship is one
\* findOneAndUpdate of one document, with no read before it; when the store
\* has executed all the updates that were sent side by side for a document
\* and path, in whatever order, it is as some serial order of the
\* operations leaves it, so no operation's effect is lost.
Thm_C14 ==
    /\ \A k \in 1..Len(applied) : OneUpdate(applied[k].q)
    /\ inflight = <<>> =>
          \E p \in Perms(Len(applied)) : store = Serially(base, applied, p, 1)

\* Two adds were sent before the store executed either, and the liaisons
\* hold the ids of both.
Wit_C14 ==
    /\ inflight = <<>>
    /\ Len(applied) = 2
    /\ applied[1].seen = base
    /\ applied[2].seen = base
    /\ applied[1].q.kind = "AddToRelationship" /\ applied[1].q.linkage = <<L2>>
    /\ applied[2].q.kind = "AddToRelationship" /\ applied[2].q.linkage = <<L3>>
    /\ base[1].liaisons = <<>>
    /\ store[1].liaisons = <<Id2, Id3>>

----------------------------------------------------------------------------
(* C15 *)

\* The Find fulfilled: its resources are what docToResource made of the
\* documents it found.
Mapped == query.kind = "Find" /\ outcome.state = "fulfilled"

\* The resource is the one made of the document.
MadeOf(r, d) == r.id = d._id /\ r.type = getType(d.model)

\* C15: in every Resource docToResource makes of a document, the linkage
\* of a relationship path the schema declares to-one is a single link or
\* null and never a list, and the linkage of a path the schema declares
\* to-many is a list (possibly empty), also when the stored value at the
\* path is absent or null.
Cex_C15 ==
    Mapped =>
        \A k \in 1..Len(Returned) : \A i \in 1..Len(store) :
            MadeOf(Returned[k], store[i]) =>
                \A p \in DOMAIN Returned[k].relationships :
                    /\ isToMany(store[i].model, p) => Returned[k].relationships[p].isList
                    /\ ~isToMany(store[i].model, p) =>
                          /\ ~Returned[k].relationships[p].isList
                          /\ Len(Returned[k].relationships[p].links) = 1

----------------------------------------------------------------------------
(* C16 *)

\* The field selection of the query is one for the type of the resource.
SelectedFor(r) == query.select.def /\ query.select.type = r.type

\* The attributes of a document that are no relationship paths and no
\* bookkeeping keys, with their stored values.
DataOf(d) == (F_name :> VStr(d.name))

\* C16: with a field selection for the type of the document, the attributes
\* of the Resource are exactly the attributes of the document that the
\* selection names, each with its stored value whatever that value is.
Cex_C16 ==
    Mapped =>
        \A k \in 1..Len(Returned) : \A i \in 1..Len(store) :
            (MadeOf(Returned[k], store[i]) /\ SelectedFor(Returned[k])) =>
                /\ DOMAIN Returned[k].attrs =
                      (DOMAIN DataOf(store[i])) \cap Range(query.select.names)
                /\ \A n \in DOMAIN Returned[k].attrs :
                      Returned[k].attrs[n] = DataOf(store[i])[n]

----------------------------------------------------------------------------
(* C17 *)

\* C17: in every Resource docToResource makes, with or without a field
\* selection, no name is both an attribute and a relationship, no
\* relationship path the schema declares is an attribute, and none of id,
\* _id, the version key and the discriminator key is an attribute.
Thm_C17 ==
    Mapped =>
        \A k \in 1..Len(Returned) :
            /\ (DOMAIN Returned[k].attrs) \cap (DOMAIN Returned[k].relationships) = {}
            /\ (DOMAIN Returned[k].attrs)
                  \cap Range(getReferencePaths(getModelName(Returned[k].type))) = {}
            /\ (DOMAIN Returned[k].attrs)
                  \cap {K_id, K__id, versionKey, discriminatorKey} = {}

\* A Find that selected _id, and one that selected the liaisons, of an
\* organization with liaisons returned the liaisons as a relationship.
Wit_C17 ==
    /\ Mapped
    /\ Len(Returned) = 1
    /\ SelectedFor(Returned[1])
    /\ query.select.names = <<K__id, F_liaisons>>
    /\ store[1].liaisons = <<Id3, Id2>>
    /\ DOMAIN Returned[1].relationships = {F_liaisons}
    /\ DOMAIN Returned[1].attrs = {}

----------------------------------------------------------------------------
(* C18 *)

\* The nodes with an edge to the node, in the graph pseudoTopSort was given.
Parents(n) == {from \in DOMAIN args.edges : n \in Range(args.edges[from])}

RECURSIVE Ancestors(_, _)
\* The nodes from which the node is reached by at most k edges, k > 0.
Ancestors(n, k) ==
    IF k = 0 THEN {}
    ELSE Parents(n) \cup UNION {Ancestors(p, k - 1) : p \in Parents(n)}

\* The input is a forest: the edges join given nodes, every node has at most
\* one incoming edge, roots is exactly the set of nodes with no incoming
\* edge, and no node is reached from itself.
IsForest ==
    /\ args.def
    /\ DOMAIN args.edges \subseteq Range(args.nodes)
    /\ \A from \in DOMAIN args.edges : Range(args.edges[from]) \subseteq Range(args.nodes)
    /\ \A n \in Range(args.nodes) : Cardinality(Parents(n)) <= 1
    /\ Range(args.roots) = {n \in Range(args.nodes) : Parents(n) = {}}
    /\ \A i, j \in 1..Len(args.roots) : args.roots[i] = args.roots[j] => i = j
    /\ \A n \in Range(args.nodes) : n \notin Ancestors(n, Len(args.nodes))

\* The places of the node in the result.
Places(n) == {i \in 1..Len(sortResult) : sortResult[i] = n}

\* C18: for every forest given to pseudoTopSort, the result holds every node
\* exactly once, so its length is the number of nodes, every node comes
\* after its parent, and the roots come in their given relative order.
Thm_C18 ==
    (returned /\ IsForest) =>
        /\ Len(sortResult) = Len(args.nodes)
        /\ \A n \in Range(args.nodes) : Cardinality(Places(n)) = 1
        /\ \A n \in Range(args.nodes) : \A p \in Parents(n) :
              \A i \in Places(n) : \A j \in Places(p) : j < i
        /\ \A i, j \in 1..Len(args.roots) :
              i < j => \A k \in Places(args.roots[i]) : \A l \in Places(args.roots[j]) : k < l

\* The sort of A with children B and C returned A, B, C; so did the sort of
\* the roots A and C where B is the child of A, as A, C, B.
Wit_C18 ==
    /\ returned
    /\ IsForest
    /\ args.nodes = <<"A", "B", "C">>
    /\ args.roots = <<"A", "C">>
    /\ DOMAIN args.edges = {"A"}
    /\ args.edges["A"] = <<"B">>
    /\ sortResult = <<"A", "C", "B">>

----------------------------------------------------------------------------
(* C19 *)

\* C19: for every recognized kind of query, every failure of doQuery is a
\* rejection of the promise it returned, of an error that went through the
\* error handler; no failure is thrown out of doQuery and none goes around
\* the error handler.
Cex_C19 ==
    (query.kind \in QueryKinds /\ outcome.state \notin {"idle", "fulfilled"}) =>
        /\ outcome.state = "rejected"
        /\ outcome.normalized

----------------------------------------------------------------------------
(* C20 *)

\* The documents a fulfilled Delete returned.
Deleted == outcome.value.primary.resources

\* C20: when the promise of a Delete fulfils, every document that matched
\* the id filter is in the value and is gone from the store, and a Find
\* that is called after the fulfilment returns none of these documents.
Cex_C20 ==
    /\ (query.kind = "Delete" /\ outcome.state = "fulfilled") =>
          /\ \A i \in 1..Len(store) :
                Selected(store[i], query) =>
                    \E k \in 1..Len(Deleted) : Deleted[k]._id = store[i]._id
          /\ \A k \in 1..Len(Deleted) : \A i \in 1..Len(store) :
                store[i]._id # Deleted[k]._id
    /\ (query.kind = "Find" /\ outcome.state = "fulfilled") =>
          \A k \in 1..Len(Returned) : Returned[k].id \notin removing

----------------------------------------------------------------------------
(* C21 *)

RECURSIVE SumLen(_, _)
\* The number of children under the keys, taken together.
SumLen(es, keys) ==
    IF keys = {} THEN 0
    ELSE LET k == CHOOSE x \in keys : TRUE
         IN  Len(es[k]) + SumLen(es, keys \ {k})

\* The number of edges of the object.
EdgeCount(es) == SumLen(es, DOMAIN es)

\* The turns the loop may take: |roots| + |edges| of the input.
MostTurns == Len(args.roots) + EdgeCount(args.edges)

\* A turn of the loop removes the edges whose children it pushes on roots
\* and puts no edge back.
C21_Step ==
    /\ DOMAIN edges' = DOMAIN edges
    /\ \A from \in DOMAIN edges : edges'[from] = edges[from] \/ edges'[from] = <<>>
    /\ Len(roots') + Len(sortResult') + EdgeCount(edges')
          = Len(roots) + Len(sortResult) + EdgeCount(edges)

\* C21: pseudoTopSort returns on every input, forest or not (a node with
\* several incoming edges, a cycle reached from a root, a root given twice):
\* every edge is consumed at most once, so the loop takes at most
\* |roots| + |edges| turns and the result has at most that many entries.
Thm_C21 ==
    /\ <>returned
    /\ [](Len(sortResult) <= MostTurns)
    /\ [][C21_Step]_vars

\* The sort of the cycle of A and B with the root A returned A, B, A: as
\* many entries as there are roots and edges.
Wit_C21 ==
    /\ returned
    /\ ~IsForest
    /\ args.roots = <<"A">>
    /\ DOMAIN args.edges = {"A", "B"}
    /\ args.edges["A"] = <<"B">>
    /\ args.edges["B"] = <<"A">>
    /\ sortResult = <<"A", "B", "A">>
    /\ Len(sortResult) = MostTurns

====
